---- MODULE Spec2Model ----
(***************************************************************************)
(* State-machine model of core/domain/question_services.py: the versioned  *)
(* question entity, its commit log, rights and summary, the memcache in    *)
(* front of the datastore, and the per-user drafts.                        *)
(***************************************************************************)
EXTENDS Integers, Sequences, FiniteSets, TLC

\* ------------------------------------------------------------------ bounds
\* Highest question version the model lets a commit produce.
MaxVersion == 3
\* Timestamps handed to create_or_update_draft are 1..MaxTime.
MaxTime == 2
\* Highest draft_change_list_id the model lets a save produce.
MaxDraftId == 2

\* ------------------------------------------------------------ input domains
QuestionIds == {"q1"}
Users == {"u1", "u2"}
\* The users whose drafts the specification exercises.
DraftUsers == {"u1"}
\* question_data values: opaque payload dicts, named by a tag.
ValidQuestionData == {"P1", "P2"}
InvalidQuestionData == "P0"
\* Language codes: two recognized ones and one that validation rejects.
ValidLanguageCodes == {"en", "hi"}
InvalidLanguageCode == "xx"
SchemaVersions == {1}
\* The requests that may run update_question at the same time.
Writers == {"w1", "w2"}
\* The requests that may run create_or_update_draft at the same time.
Savers == {"s1", "s2"}
\* The question_version values callers pass when saving a draft.
DraftVersions == {1, 2}
Times == 1..MaxTime
\* The callers of the review workflow: the users and two more, so that
\* every mix of roles occurs with and without being the creator.
Callers == Users \cup {"u3", "u4"}

\* ------------------------------------------------------- optional values
\* Python's None / present value, as a sequence of length 0 or 1.
None == << >>
Some(x) == <<x>>
IsNone(o) == Len(o) = 0
Get(o) == o[1]

\* ------------------------------------------------------ program constants
CMD_CREATE_NEW == "create_new"
CMD_UPDATE_QUESTION_PROPERTY == "update_question_property"
QUESTION_PROPERTY_LANGUAGE_CODE == "language_code"
QUESTION_PROPERTY_QUESTION_DATA == "question_data"
ACTIVITY_STATUS_PRIVATE == "private"
QUESTION_STATUS_PENDING == "pending"
QUESTION_STATUS_APPROVED == "approved"
QUESTION_STATUS_REJECTED == "rejected"
ACTION_CHANGE_QUESTION_STATUS == "change_question_status"

\* ------------------------------------------------------------- change lists
LangChange(v) ==
    [cmd |-> CMD_UPDATE_QUESTION_PROPERTY,
     property_name |-> QUESTION_PROPERTY_LANGUAGE_CODE, new_value |-> v]
DataChange(v) ==
    [cmd |-> CMD_UPDATE_QUESTION_PROPERTY,
     property_name |-> QUESTION_PROPERTY_QUESTION_DATA, new_value |-> v]

\* The change lists callers submit.
ChangeLists ==
    { << >>,
      << LangChange("hi") >>,
      << LangChange(InvalidLanguageCode) >>,
      << DataChange("P2") >>,
      << DataChange(InvalidQuestionData) >>,
      << LangChange("hi"), LangChange("en") >>,
      << DataChange("P2"), LangChange("hi") >> }

\* The change lists callers save as drafts.
DraftChangeLists ==
    { << >>,
      << LangChange("hi") >>,
      << LangChange(InvalidLanguageCode) >>,
      << DataChange("P2") >> }

\* Edits the change-list loop has no branch for: a command it does not
\* know, and an update of a property a question does not have.
UnknownCommandChange(v) ==
    [cmd |-> "rename_question",
     property_name |-> QUESTION_PROPERTY_LANGUAGE_CODE, new_value |-> v]
UnknownPropertyChange(v) ==
    [cmd |-> CMD_UPDATE_QUESTION_PROPERTY,
     property_name |-> "title", new_value |-> v]

\* Change lists that hold such an edit, alone or after a well-formed one.
MalformedChangeLists ==
    { << UnknownCommandChange("hi") >>,
      << UnknownPropertyChange("hi") >>,
      << LangChange("hi"), UnknownPropertyChange("hi") >> }

\* The question_version the saves of these specifications carry.
SaverVersions == {1}

\* The change lists the interleaved saves carry: one that validates and
\* one that does not.
SaverChangeLists ==
    { << LangChange("hi") >>, << LangChange(InvalidLanguageCode) >> }

\* QuestionChange.to_dict and QuestionChange(dict): the dict carries the
\* object's attributes under the same keys.
ChangeToDict(change) ==
    [cmd |-> change.cmd, property_name |-> change.property_name,
     new_value |-> change.new_value]
ChangeListToDicts(change_list) ==
    [i \in 1..Len(change_list) |-> ChangeToDict(change_list[i])]
QuestionChange(change_dict) ==
    [cmd |-> change_dict.cmd, property_name |-> change_dict.property_name,
     new_value |-> change_dict.new_value]
DictsToChangeList(dicts) ==
    [i \in 1..Len(dicts) |-> QuestionChange(dicts[i])]

\* ------------------------------------------------------------------- state
VARIABLES
    questionModels,     \* QuestionModel rows: id -> None | Some(row)
    commitLog,          \* id -> sequence of commit entries, oldest first
    questionRights,     \* QuestionRightsModel rows: id -> None | Some(row)
    questionSummaries,  \* QuestionSummaryModel rows: id -> None | Some(row)
    memcache,           \* 'question:<id>' keys: id -> None | Some(Question)
    questionUserData,   \* QuestionUserDataModel rows: <<user, id>> -> None | Some(row)
    updatesOk,          \* history: update_question calls that returned normally
    effectiveSaves,     \* history: create_or_update_draft calls that wrote the row
    result,             \* the last call: its name, outcome and return value
    pc,                 \* interleaved update_question: writer -> position
    writer,             \* interleaved update_question: writer -> its locals
    saver               \* interleaved create_or_update_draft: saver ->
                        \* its position, arguments and the row it read

vars == << questionModels, commitLog, questionRights, questionSummaries,
           memcache, questionUserData, updatesOk, effectiveSaves, result,
           pc, writer, saver >>

\* The locals of a writer that is not inside update_question.
NoWriter == [question |-> None, change_list |-> << >>, row |-> None]

\* A saver that is not inside create_or_update_draft.
NoSaver ==
    [pc |-> "idle", question_id |-> "", user_id |-> "", change_list |-> << >>,
     question_version |-> 0, current_datetime |-> 0,
     question_user_data |-> None]

NoResult == [op |-> "none", outcome |-> "ok", value |-> None]

\* A call's record: what was called, how it ended and what it returned.
Call(op, outcome, value) == [op |-> op, outcome |-> outcome, value |-> value]

Init ==
    /\ questionModels = [q \in QuestionIds |-> None]
    /\ commitLog = [q \in QuestionIds |-> << >>]
    /\ questionRights = [q \in QuestionIds |-> None]
    /\ questionSummaries = [q \in QuestionIds |-> None]
    /\ memcache = [q \in QuestionIds |-> None]
    /\ questionUserData = [k \in Users \X QuestionIds |-> None]
    /\ updatesOk = [q \in QuestionIds |-> 0]
    /\ effectiveSaves = [k \in Users \X QuestionIds |-> 0]
    /\ result = NoResult
    /\ pc = [w \in Writers |-> "idle"]
    /\ writer = [w \in Writers |-> NoWriter]
    /\ saver = [r \in Savers |-> NoSaver]

\* ------------------------------------------------------- question domain
Question(question_id, question_data, schema_version, language_code) ==
    [question_id |-> question_id, question_data |-> question_data,
     question_data_schema_version |-> schema_version,
     language_code |-> language_code]

\* Question.validate: non-empty payload, recognized language code,
\* non-negative schema version.
Validate(question) ==
    /\ question.question_data \in ValidQuestionData
    /\ question.language_code \in ValidLanguageCodes
    /\ question.question_data_schema_version >= 0

\* question_data['content']['html'] of a payload.
ContentHtml(question_data) ==
    CASE question_data = "P1" -> "<p>one</p>"
      [] question_data = "P2" -> "<p>two</p>"
      [] OTHER -> ""

\* QuestionModel.get(id, strict=False): deleted rows read as absent.
QuestionModelGet(models, question_id) ==
    IF IsNone(models[question_id]) \/ Get(models[question_id]).deleted
    THEN None
    ELSE models[question_id]

get_question_from_model(question_model) ==
    Question(question_model.id, question_model.question_data,
             question_model.question_data_schema_version,
             question_model.language_code)

\* get_question_by_id(question_id) with version=None: what it returns
\* (None when the question is neither cached nor stored) ...
GetQuestionByIdValue(cache, models, question_id) ==
    IF ~IsNone(cache[question_id])
    THEN cache[question_id]
    ELSE IF ~IsNone(QuestionModelGet(models, question_id))
         THEN Some(get_question_from_model(Get(QuestionModelGet(models, question_id))))
         ELSE None

\* ... and the memcache it leaves behind (set_multi on a miss that loads).
GetQuestionByIdCache(cache, models, question_id) ==
    [cache EXCEPT ![question_id] = GetQuestionByIdValue(cache, models, question_id)]

\* One iteration of apply_change_list's loop.
ApplyChange(question, change) ==
    IF change.cmd = CMD_UPDATE_QUESTION_PROPERTY
    THEN IF change.property_name = QUESTION_PROPERTY_LANGUAGE_CODE
         THEN [question EXCEPT !.language_code = change.new_value]
         ELSE IF change.cmd = QUESTION_PROPERTY_QUESTION_DATA
              THEN [question EXCEPT !.question_data = change.new_value]
              ELSE question
    ELSE question

\* apply_change_list's loop over the loaded question.
RECURSIVE ApplyChanges(_, _)
ApplyChanges(question, change_list) ==
    IF change_list = << >>
    THEN question
    ELSE ApplyChanges(ApplyChange(question, Head(change_list)), Tail(change_list))

\* --------------------------------------------------------------- storage
\* VersionedModel.commit on a row: the row is stored with its version raised
\* by one and an entry for that version is appended to the commit log.
CommitRow(row) == [row EXCEPT !.version = row.version + 1]
CommitEntry(row, commit_type) ==
    [version |-> row.version + 1, commit_type |-> commit_type]

NewQuestionModel(question) ==
    [id |-> question.question_id, question_data |-> question.question_data,
     question_data_schema_version |-> question.question_data_schema_version,
     language_code |-> question.language_code, version |-> 0, deleted |-> FALSE]

\* compute_summary_of_question
compute_summary_of_question(question, creator_id, status) ==
    [id |-> question.question_id, creator_id |-> creator_id,
     language_code |-> question.language_code, status |-> status,
     question_html_data |-> ContentHtml(question.question_data)]

\* A rights row that names a manager.
NewQuestionRightsWithManager(question_id) ==
    [id |-> question_id, manager_ids |-> {"u1"}]

\* create_new_question_rights: a rights row with no managers.
NewQuestionRights(question_id) == [id |-> question_id, manager_ids |-> {}]

\* ------------------------------------------------------------ add_question
\* An id is handed out by get_new_question_id, which never returns an id
\* that is in use.
IsFreshId(question_id) ==
    /\ IsNone(questionModels[question_id])
    /\ IsNone(questionRights[question_id])

add_question(committer_id, question) ==
    LET qid == question.question_id
        row == NewQuestionModel(question)
        models1 == [questionModels EXCEPT ![qid] = Some(CommitRow(row))]
        \* create_question_summary reads the question back through the cache
        loaded == GetQuestionByIdValue(memcache, models1, qid)
    IN  /\ IsFreshId(qid)
        /\ IF ~Validate(question)
           THEN /\ result' = Call("add_question", "ValidationError", None)
                /\ UNCHANGED << questionModels, commitLog, questionRights,
                                questionSummaries, memcache >>
           ELSE /\ questionRights' =
                       [questionRights EXCEPT ![qid] = Some(NewQuestionRights(qid))]
                /\ questionModels' = models1
                /\ commitLog' =
                       [commitLog EXCEPT ![qid] = << CommitEntry(row, "create") >>]
                /\ memcache' = GetQuestionByIdCache(memcache, models1, qid)
                /\ questionSummaries' =
                       [questionSummaries EXCEPT ![qid] =
                           Some(compute_summary_of_question(
                                    Get(loaded), committer_id,
                                    ACTIVITY_STATUS_PRIVATE))]
                /\ result' = Call("add_question", "ok", None)
        /\ UNCHANGED << questionUserData, updatesOk, effectiveSaves >>

\* --------------------------------------------------------- delete_question
\* delete_question loading the row whether or not it is marked deleted.
delete_question_of_deleted_row(committer_id, question_id, force_deletion) ==
    LET found == questionModels[question_id]
    IN  /\ IF IsNone(found)
           THEN /\ result' = Call("delete_question", "NotFound", None)
                /\ UNCHANGED << questionModels, commitLog >>
           ELSE /\ IF force_deletion
                   THEN /\ questionModels' =
                               [questionModels EXCEPT ![question_id] = None]
                        /\ commitLog' = [commitLog EXCEPT ![question_id] = << >>]
                   ELSE /\ questionModels' =
                               [questionModels EXCEPT ![question_id] =
                                   Some([Get(found) EXCEPT !.deleted = TRUE])]
                        /\ UNCHANGED commitLog
                /\ result' = Call("delete_question", "ok", None)
        /\ UNCHANGED << questionRights, questionSummaries, memcache,
                        questionUserData, updatesOk, effectiveSaves >>

delete_question(committer_id, question_id, force_deletion) ==
    LET found == QuestionModelGet(questionModels, question_id)
    IN  /\ IF IsNone(found)
           THEN /\ result' = Call("delete_question", "NotFound", None)
                /\ UNCHANGED << questionModels, commitLog >>
           ELSE /\ IF force_deletion
                   THEN /\ questionModels' =
                               [questionModels EXCEPT ![question_id] = None]
                        /\ commitLog' = [commitLog EXCEPT ![question_id] = << >>]
                   ELSE /\ questionModels' =
                               [questionModels EXCEPT ![question_id] =
                                   Some([Get(found) EXCEPT !.deleted = TRUE])]
                        /\ UNCHANGED commitLog
                /\ result' = Call("delete_question", "ok", None)
        /\ UNCHANGED << questionRights, questionSummaries, memcache,
                        questionUserData, updatesOk, effectiveSaves >>

\* ------------------------------------------------------ get_question_by_id
get_question_by_id(question_id, strict) ==
    LET value == GetQuestionByIdValue(memcache, questionModels, question_id)
    IN  /\ memcache' = GetQuestionByIdCache(memcache, questionModels, question_id)
        /\ result' = Call("get_question_by_id",
                          IF IsNone(value) /\ strict THEN "NotFound" ELSE "ok",
                          value)
        /\ UNCHANGED << questionModels, commitLog, questionRights,
                        questionSummaries, questionUserData, updatesOk,
                        effectiveSaves >>

\* ------------------------------------------------------- apply_change_list
\* What apply_change_list returns: None stands for the EntityNotFound that
\* get_question_by_id raises for a question neither cached nor stored.
ApplyChangeListValue(cache, models, question_id, change_list) ==
    LET loaded == GetQuestionByIdValue(cache, models, question_id)
    IN  IF IsNone(loaded) THEN None
        ELSE Some(ApplyChanges(Get(loaded), change_list))

apply_change_list(question_id, change_list) ==
    LET value == ApplyChangeListValue(memcache, questionModels, question_id,
                                      change_list)
    IN  /\ memcache' = GetQuestionByIdCache(memcache, questionModels, question_id)
        /\ result' = Call("apply_change_list",
                          IF IsNone(value) THEN "NotFound" ELSE "ok", value)
        /\ UNCHANGED << questionModels, commitLog, questionRights,
                        questionSummaries, questionUserData, updatesOk,
                        effectiveSaves >>

\* --------------------------------------------------------- update_question
\* _save_question without its check for an empty change list.
SaveQuestionOutcomeNoEmptyCheck(models, question, change_list) ==
    IF ~Validate(question) THEN "ValidationError"
    ELSE IF IsNone(QuestionModelGet(models, question.question_id)) THEN "NotFound"
    ELSE "ok"

\* How _save_question ends for the question built by apply_change_list.
SaveQuestionOutcome(models, question, change_list) ==
    IF change_list = << >> THEN "InvalidChangeList"
    ELSE IF ~Validate(question) THEN "ValidationError"
    ELSE IF IsNone(QuestionModelGet(models, question.question_id)) THEN "NotFound"
    ELSE "ok"

\* _save_question committing before it validates.
SaveQuestionCommitsUnvalidated(models, question, change_list) ==
    /\ change_list # << >>
    /\ ~IsNone(QuestionModelGet(models, question.question_id))

\* _save_question reaches model.commit only past its checks.
SaveQuestionCommits(models, question, change_list) ==
    SaveQuestionOutcome(models, question, change_list) = "ok"

\* The row _save_question hands to commit: the stored row with the
\* question's fields copied over it.
SavedRow(row, question) ==
    [row EXCEPT !.question_data = question.question_data,
                !.question_data_schema_version =
                    question.question_data_schema_version,
                !.language_code = question.language_code]

update_question(committer_id, question_id, change_list) ==
    LET updated == ApplyChangeListValue(memcache, questionModels, question_id,
                                        change_list)
        outcome == IF IsNone(updated) THEN "NotFound"
                   ELSE SaveQuestionOutcome(questionModels, Get(updated),
                                            change_list)
        row == SavedRow(Get(QuestionModelGet(questionModels, question_id)),
                        Get(updated))
    IN  /\ memcache' = GetQuestionByIdCache(memcache, questionModels, question_id)
        /\ result' = Call("update_question", outcome, None)
        /\ IF ~IsNone(updated)
              /\ SaveQuestionCommits(questionModels, Get(updated), change_list)
           THEN /\ row.version < MaxVersion
                /\ questionModels' =
                       [questionModels EXCEPT ![question_id] = Some(CommitRow(row))]
                /\ commitLog' =
                       [commitLog EXCEPT ![question_id] =
                           Append(@, CommitEntry(row, "edit"))]
           ELSE UNCHANGED << questionModels, commitLog >>
        /\ updatesOk' = IF outcome = "ok"
                        THEN [updatesOk EXCEPT ![question_id] = @ + 1]
                        ELSE updatesOk
        /\ UNCHANGED << questionRights, questionSummaries, questionUserData,
                        effectiveSaves >>

\* update_question as its callers' requests interleave: writer w runs
\* apply_change_list (line 260), then _save_question up to the row it has
\* loaded and filled in (lines 230-242), then model.commit (line 243).
UpdateApply(w, committer_id, question_id, change_list) ==
    LET updated == ApplyChangeListValue(memcache, questionModels, question_id,
                                        change_list)
    IN  /\ pc[w] = "idle"
        /\ memcache' = GetQuestionByIdCache(memcache, questionModels, question_id)
        /\ IF IsNone(updated)
           THEN /\ result' = Call("update_question", "NotFound", None)
                /\ UNCHANGED << pc, writer >>
           ELSE /\ pc' = [pc EXCEPT ![w] = "applied"]
                /\ writer' = [writer EXCEPT ![w] =
                       [question |-> Get(updated), change_list |-> change_list,
                        row |-> None]]
                /\ result' = Call("apply_change_list", "ok", updated)
        /\ UNCHANGED << questionModels, commitLog, questionRights,
                        questionSummaries, questionUserData, updatesOk,
                        effectiveSaves >>

UpdateLoad(w) ==
    LET question == writer[w].question
        outcome == SaveQuestionOutcome(questionModels, question,
                                       writer[w].change_list)
    IN  /\ pc[w] = "applied"
        /\ IF outcome = "ok"
           THEN /\ pc' = [pc EXCEPT ![w] = "loaded"]
                /\ writer' = [writer EXCEPT ![w].row =
                       Some(SavedRow(
                           Get(QuestionModelGet(questionModels,
                                                question.question_id)),
                           question))]
                /\ UNCHANGED result
           ELSE /\ pc' = [pc EXCEPT ![w] = "idle"]
                /\ writer' = [writer EXCEPT ![w] = NoWriter]
                /\ result' = Call("update_question", outcome, None)
        /\ UNCHANGED << questionModels, commitLog, questionRights,
                        questionSummaries, memcache, questionUserData,
                        updatesOk, effectiveSaves >>

UpdateCommit(w) ==
    LET row == Get(writer[w].row)
    IN  /\ pc[w] = "loaded"
        /\ row.version < MaxVersion
        /\ questionModels' = [questionModels EXCEPT ![row.id] = Some(CommitRow(row))]
        /\ commitLog' =
               [commitLog EXCEPT ![row.id] = Append(@, CommitEntry(row, "edit"))]
        /\ updatesOk' = [updatesOk EXCEPT ![row.id] = @ + 1]
        /\ pc' = [pc EXCEPT ![w] = "idle"]
        /\ writer' = [writer EXCEPT ![w] = NoWriter]
        /\ result' = Call("update_question", "ok", None)
        /\ UNCHANGED << questionRights, questionSummaries, memcache,
                        questionUserData, effectiveSaves >>

\* ------------------------------------------------------------------ drafts
\* Python truthiness of a draft_change_list field: None and [] are falsy.
Truthy(opt_list) == ~IsNone(opt_list) /\ Get(opt_list) # << >>

\* QuestionUserDataModel.create: a row with no draft and id 0.
NewQuestionUserData(user_id, question_id) ==
    [user_id |-> user_id, question_id |-> question_id,
     draft_change_list |-> None,
     draft_change_list_last_updated |-> None,
     draft_change_list_question_version |-> None,
     draft_change_list_id |-> 0]

is_version_of_draft_valid(cache, models, question_id, version) ==
    Some(Get(GetQuestionByIdValue(cache, models, question_id))
             .question_data_schema_version) = version

\* What get_question_with_draft_applied returns for a question that
\* get_question_by_id can load, given the user's row.
DraftAppliedValue(cache, models, question_id, row) ==
    LET question == GetQuestionByIdValue(cache, models, question_id)
        cache1 == GetQuestionByIdCache(cache, models, question_id)
    IN  IF /\ ~IsNone(row)
           /\ Truthy(Get(row).draft_change_list)
           /\ is_version_of_draft_valid(
                  cache1, models, question_id,
                  Get(row).draft_change_list_question_version)
        THEN ApplyChangeListValue(
                 cache1, models, question_id,
                 DictsToChangeList(Get(Get(row).draft_change_list)))
        ELSE question

get_question_with_draft_applied(question_id, user_id) ==
    LET row == questionUserData[<<user_id, question_id>>]
        question == GetQuestionByIdValue(memcache, questionModels, question_id)
    IN  /\ memcache' = GetQuestionByIdCache(memcache, questionModels, question_id)
        /\ result' =
               IF IsNone(question)
               THEN Call("get_question_with_draft_applied", "NotFound", None)
               ELSE Call("get_question_with_draft_applied", "ok",
                         DraftAppliedValue(memcache, questionModels,
                                           question_id, row))
        /\ UNCHANGED << questionModels, commitLog, questionRights,
                        questionSummaries, questionUserData, updatesOk,
                        effectiveSaves >>

\* A discard that stores the row as it read it.
DiscardedRowUntouched(row) == row

\* The row discard_draft stores over an existing one.
DiscardedRow(row) ==
    [row EXCEPT !.draft_change_list = None,
                !.draft_change_list_last_updated = None,
                !.draft_change_list_question_version = None]

\* A discard that clears the drafts of all users of the question.
discard_draft_of_every_user(question_id, user_id) ==
    /\ questionUserData' =
           [k \in Users \X QuestionIds |->
               IF k[2] = question_id /\ ~IsNone(questionUserData[k])
               THEN Some(DiscardedRow(Get(questionUserData[k])))
               ELSE questionUserData[k]]
    /\ result' = Call("discard_draft", "ok", None)
    /\ UNCHANGED << questionModels, commitLog, questionRights,
                    questionSummaries, memcache, updatesOk, effectiveSaves >>

discard_draft(question_id, user_id) ==
    LET row == questionUserData[<<user_id, question_id>>]
    IN  /\ questionUserData' =
               IF ~IsNone(row)
               THEN [questionUserData EXCEPT ![<<user_id, question_id>>] =
                        Some(DiscardedRow(Get(row)))]
               ELSE questionUserData
        /\ result' = Call("discard_draft", "ok", None)
        /\ UNCHANGED << questionModels, commitLog, questionRights,
                        questionSummaries, memcache, updatesOk, effectiveSaves >>

\* The guard of create_or_update_draft: the stored draft is non-empty and
\* strictly newer than the caller's timestamp.
DraftIsNewer(row, current_datetime) ==
    /\ ~IsNone(row)
    /\ Truthy(Get(row).draft_change_list)
    /\ Get(Get(row).draft_change_list_last_updated) > current_datetime

\* A save that stores the id it read.
NextDraftChangeListIdUnchanged(row) == row.draft_change_list_id

\* The id a save gives the draft.
NextDraftChangeListId(row) == row.draft_change_list_id + 1

\* The row a save stores.
SavedDraftRow(row, change_list, question_version, current_datetime) ==
    [row EXCEPT !.draft_change_list = Some(ChangeListToDicts(change_list)),
                !.draft_change_list_last_updated = Some(current_datetime),
                !.draft_change_list_question_version = Some(question_version),
                !.draft_change_list_id = NextDraftChangeListId(row)]

create_or_update_draft(question_id, user_id, change_list, question_version, current_datetime) ==
    LET key == <<user_id, question_id>>
        row == questionUserData[key]
        updated == ApplyChangeListValue(memcache, questionModels, question_id,
                                        change_list)
        base == IF IsNone(row) THEN NewQuestionUserData(user_id, question_id)
                ELSE Get(row)
        outcome == IF DraftIsNewer(row, current_datetime) THEN "noop"
                   ELSE IF IsNone(updated) THEN "NotFound"
                   ELSE IF ~Validate(Get(updated)) THEN "ValidationError"
                   ELSE "ok"
    IN  /\ result' = Call("create_or_update_draft", outcome, None)
        /\ memcache' = IF outcome = "noop" THEN memcache
                       ELSE GetQuestionByIdCache(memcache, questionModels,
                                                 question_id)
        /\ IF outcome = "ok"
           THEN /\ base.draft_change_list_id < MaxDraftId
                /\ questionUserData' =
                       [questionUserData EXCEPT ![key] =
                           Some(SavedDraftRow(base, change_list, question_version,
                                              current_datetime))]
                /\ effectiveSaves' = [effectiveSaves EXCEPT ![key] = @ + 1]
           ELSE UNCHANGED << questionUserData, effectiveSaves >>
        /\ UNCHANGED << questionModels, commitLog, questionRights,
                        questionSummaries, updatesOk >>

\* create_or_update_draft as its callers' requests interleave: saver r
\* reads the user's row and tests the guard (lines 697-701), then runs
\* apply_change_list and validate (lines 703-704), then fills in the row it
\* read, or a new one, and puts it (lines 706-717).
DraftRead(r, question_id, user_id, change_list, question_version, current_datetime) ==
    LET row == questionUserData[<<user_id, question_id>>]
    IN  /\ saver[r].pc = "idle"
        /\ IF DraftIsNewer(row, current_datetime)
           THEN /\ result' = Call("create_or_update_draft", "noop", None)
                /\ UNCHANGED saver
           ELSE /\ saver' = [saver EXCEPT ![r] =
                       [pc |-> "read", question_id |-> question_id,
                        user_id |-> user_id, change_list |-> change_list,
                        question_version |-> question_version,
                        current_datetime |-> current_datetime,
                        question_user_data |-> row]]
                /\ UNCHANGED result
        /\ UNCHANGED << questionModels, commitLog, questionRights,
                        questionSummaries, memcache, questionUserData,
                        updatesOk, effectiveSaves, pc, writer >>

DraftApply(r) ==
    LET updated == ApplyChangeListValue(memcache, questionModels,
                                        saver[r].question_id,
                                        saver[r].change_list)
        outcome == IF IsNone(updated) THEN "NotFound"
                   ELSE IF ~Validate(Get(updated)) THEN "ValidationError"
                   ELSE "ok"
    IN  /\ saver[r].pc = "read"
        /\ memcache' = GetQuestionByIdCache(memcache, questionModels,
                                            saver[r].question_id)
        /\ IF outcome = "ok"
           THEN /\ saver' = [saver EXCEPT ![r].pc = "applied"]
                /\ UNCHANGED result
           ELSE /\ saver' = [saver EXCEPT ![r] = NoSaver]
                /\ result' = Call("create_or_update_draft", outcome, None)
        /\ UNCHANGED << questionModels, commitLog, questionRights,
                        questionSummaries, questionUserData, updatesOk,
                        effectiveSaves, pc, writer >>

DraftWrite(r) ==
    LET key == << saver[r].user_id, saver[r].question_id >>
        row == saver[r].question_user_data
        base == IF IsNone(row)
                THEN NewQuestionUserData(saver[r].user_id, saver[r].question_id)
                ELSE Get(row)
    IN  /\ saver[r].pc = "applied"
        /\ base.draft_change_list_id < MaxDraftId
        /\ questionUserData' =
               [questionUserData EXCEPT ![key] =
                   Some(SavedDraftRow(base, saver[r].change_list,
                                      saver[r].question_version,
                                      saver[r].current_datetime))]
        /\ effectiveSaves' = [effectiveSaves EXCEPT ![key] = @ + 1]
        /\ saver' = [saver EXCEPT ![r] = NoSaver]
        /\ result' = Call("create_or_update_draft", "ok", None)
        /\ UNCHANGED << questionModels, commitLog, questionRights,
                        questionSummaries, memcache, updatesOk, pc, writer >>

\* ---------------------------------------------------------------- workflow
\* The permission collaborators' answers: u1 holds no role, u2 is an admin,
\* u3 a topic manager, u4 both; admins may change a question's status.
is_admin(user_id) == user_id \in {"u2", "u4"}
is_topic_manager(user_id) == user_id \in {"u3", "u4"}
\* UserActionsInfo(user_id).actions
UserActions(user_id) ==
    IF is_admin(user_id) THEN {ACTION_CHANGE_QUESTION_STATUS} ELSE {}

\* QuestionSummaryModel.get(question_id, strict=False)
get_question_summary_by_question_id(summaries, question_id) ==
    summaries[question_id]

\* send_question_for_review: on a missing Summary the assignment to
\* model.status raises AttributeError.
send_question_for_review(committer_id, question_id) ==
    LET model == get_question_summary_by_question_id(questionSummaries,
                                                     question_id)
    IN  /\ IF IsNone(model)
           THEN /\ result' = Call("send_question_for_review", "AttributeError",
                                  None)
                /\ UNCHANGED questionSummaries
           ELSE /\ questionSummaries' =
                       [questionSummaries EXCEPT ![question_id] =
                           Some([Get(model) EXCEPT !.status =
                                    QUESTION_STATUS_PENDING])]
                /\ result' = Call("send_question_for_review", "ok", None)
        /\ UNCHANGED << questionModels, commitLog, questionRights, memcache,
                        questionUserData, updatesOk, effectiveSaves >>

\* A reject that also drops the question's memcache entry.
reject_question_dropping_cache(committer_id, question_id) ==
    LET model == get_question_summary_by_question_id(questionSummaries,
                                                     question_id)
    IN  /\ IF IsNone(model)
           THEN /\ result' = Call("reject_question", "AttributeError", None)
                /\ UNCHANGED questionSummaries
           ELSE /\ questionSummaries' =
                       [questionSummaries EXCEPT ![question_id] =
                           Some([Get(model) EXCEPT !.status =
                                    QUESTION_STATUS_REJECTED])]
                /\ result' = Call("reject_question", "ok", None)
        /\ memcache' = [memcache EXCEPT ![question_id] = None]
        /\ UNCHANGED << questionModels, commitLog, questionRights,
                        questionUserData, updatesOk, effectiveSaves >>

reject_question(committer_id, question_id) ==
    LET model == get_question_summary_by_question_id(questionSummaries,
                                                     question_id)
    IN  /\ IF IsNone(model)
           THEN /\ result' = Call("reject_question", "AttributeError", None)
                /\ UNCHANGED questionSummaries
           ELSE /\ questionSummaries' =
                       [questionSummaries EXCEPT ![question_id] =
                           Some([Get(model) EXCEPT !.status =
                                    QUESTION_STATUS_REJECTED])]
                /\ result' = Call("reject_question", "ok", None)
        /\ UNCHANGED << questionModels, commitLog, questionRights, memcache,
                        questionUserData, updatesOk, effectiveSaves >>

\* check_can_edit_question without its comparison of creator_id and user_id.
CanEditQuestionIgnoresCreator(question_summary, user_id) ==
    IF question_summary.status = QUESTION_STATUS_PENDING THEN FALSE
    ELSE IF \/ question_summary.status = ACTIVITY_STATUS_PRIVATE
            \/ question_summary.status = QUESTION_STATUS_REJECTED
         THEN TRUE
    ELSE IF is_admin(user_id) \/ is_topic_manager(user_id)
         THEN question_summary.status = QUESTION_STATUS_APPROVED
    ELSE FALSE

\* check_can_edit_question past its load of the Summary.
CanEditQuestion(question_summary, user_id) ==
    IF question_summary.status = QUESTION_STATUS_PENDING THEN FALSE
    ELSE IF /\ (\/ question_summary.status = ACTIVITY_STATUS_PRIVATE
                \/ question_summary.status = QUESTION_STATUS_REJECTED)
            /\ question_summary.creator_id = user_id
         THEN TRUE
    ELSE IF is_admin(user_id) \/ is_topic_manager(user_id)
         THEN IF question_summary.status = QUESTION_STATUS_APPROVED
              THEN TRUE
              ELSE FALSE
    ELSE FALSE

check_can_edit_question(user_id, question_id) ==
    LET question_summary ==
            get_question_summary_by_question_id(questionSummaries, question_id)
    IN  /\ result' =
               IF IsNone(question_summary)
               THEN Call("check_can_edit_question", "AttributeError", None)
               ELSE Call("check_can_edit_question", "ok",
                         Some(CanEditQuestion(Get(question_summary), user_id)))
        /\ UNCHANGED << questionModels, commitLog, questionRights,
                        questionSummaries, memcache, questionUserData,
                        updatesOk, effectiveSaves >>

\* publish_question without its look at the caller's actions.
PublishOutcomeNoCapabilityCheck(question_summary, committer_id) ==
    IF IsNone(question_summary) THEN "NotFound"
    ELSE IF Get(question_summary).status = QUESTION_STATUS_APPROVED
         THEN "AlreadyPublished"
    ELSE "ok"

\* How publish_question ends.
PublishOutcome(question_summary, committer_id) ==
    IF IsNone(question_summary) THEN "NotFound"
    ELSE IF ACTION_CHANGE_QUESTION_STATUS \notin UserActions(committer_id)
         THEN "PermissionDenied"
    ELSE IF Get(question_summary).status = QUESTION_STATUS_APPROVED
         THEN "AlreadyPublished"
    ELSE "ok"

publish_question(question_id, committer_id) ==
    LET question_summary ==
            get_question_summary_by_question_id(questionSummaries, question_id)
        outcome == PublishOutcome(question_summary, committer_id)
    IN  /\ result' = Call("publish_question", outcome, None)
        /\ questionSummaries' =
               IF outcome = "ok"
               THEN [questionSummaries EXCEPT ![question_id] =
                        Some([Get(question_summary) EXCEPT !.status =
                                 QUESTION_STATUS_APPROVED])]
               ELSE questionSummaries
        /\ UNCHANGED << questionModels, commitLog, questionRights, memcache,
                        questionUserData, updatesOk, effectiveSaves >>

\* How unpublish_question ends.
UnpublishOutcome(question_summary, committer_id) ==
    IF IsNone(question_summary) THEN "NotFound"
    ELSE IF ACTION_CHANGE_QUESTION_STATUS \notin UserActions(committer_id)
         THEN "PermissionDenied"
    ELSE IF ~(Get(question_summary).status = QUESTION_STATUS_APPROVED)
         THEN "AlreadyUnpublished"
    ELSE "ok"

unpublish_question(question_id, committer_id) ==
    LET question_summary ==
            get_question_summary_by_question_id(questionSummaries, question_id)
        outcome == UnpublishOutcome(question_summary, committer_id)
    IN  /\ result' = Call("unpublish_question", outcome, None)
        /\ questionSummaries' =
               IF outcome = "ok"
               THEN [questionSummaries EXCEPT ![question_id] =
                        Some([Get(question_summary) EXCEPT !.status =
                                 ACTIVITY_STATUS_PRIVATE])]
               ELSE questionSummaries
        /\ UNCHANGED << questionModels, commitLog, questionRights, memcache,
                        questionUserData, updatesOk, effectiveSaves >>

\* ------------------------------------------------------------ specification
\* The questions handed to add_question.
NewQuestions ==
    { Question(q, d, s, l) :
        q \in QuestionIds, d \in {"P1", InvalidQuestionData},
        s \in SchemaVersions, l \in {"en", InvalidLanguageCode} }

\* Each whole call below runs with no interleaved update_question stepping.
AddQuestion ==
    /\ \E c \in Users, question \in NewQuestions : add_question(c, question)
    /\ UNCHANGED << pc, writer, saver >>
DeleteQuestion ==
    /\ \E c \in Users, q \in QuestionIds, f \in BOOLEAN : delete_question(c, q, f)
    /\ UNCHANGED << pc, writer, saver >>
GetQuestionById ==
    /\ \E q \in QuestionIds, strict \in BOOLEAN : get_question_by_id(q, strict)
    /\ UNCHANGED << pc, writer, saver >>
ApplyChangeList ==
    /\ \E q \in QuestionIds, cl \in ChangeLists : apply_change_list(q, cl)
    /\ UNCHANGED << pc, writer, saver >>
UpdateQuestion ==
    /\ \E c \in Users, q \in QuestionIds, cl \in ChangeLists :
           update_question(c, q, cl)
    /\ UNCHANGED << pc, writer, saver >>
GetQuestionWithDraftApplied ==
    /\ \E q \in QuestionIds, u \in DraftUsers :
           get_question_with_draft_applied(q, u)
    /\ UNCHANGED << pc, writer, saver >>
DiscardDraft ==
    /\ \E q \in QuestionIds, u \in DraftUsers : discard_draft(q, u)
    /\ UNCHANGED << pc, writer, saver >>
CreateOrUpdateDraft ==
    /\ \E q \in QuestionIds, u \in DraftUsers, cl \in DraftChangeLists,
          v \in DraftVersions, t \in Times : create_or_update_draft(q, u, cl, v, t)
    /\ UNCHANGED << pc, writer, saver >>

\* The question's own operations: create, delete, read and update.
Next ==
    \/ AddQuestion
    \/ DeleteQuestion
    \/ GetQuestionById
    \/ ApplyChangeList
    \/ UpdateQuestion

Spec == Init /\ [][Next]_vars

\* The draft operations of one user, over a question that is created,
\* updated and deleted underneath them.
NextDraft ==
    \/ AddQuestion
    \/ DeleteQuestion
    \/ UpdateQuestion
    \/ GetQuestionWithDraftApplied
    \/ DiscardDraft
    \/ CreateOrUpdateDraft

SpecDraft == Init /\ [][NextDraft]_vars

\* Two requests running update_question on the same question, their
\* datastore reads and writes interleaving.
WriterApply ==
    /\ \E w \in Writers, c \in Users, q \in QuestionIds, cl \in ChangeLists :
           UpdateApply(w, c, q, cl)
    /\ UNCHANGED saver
WriterLoad ==
    /\ \E w \in Writers : UpdateLoad(w)
    /\ UNCHANGED saver
WriterCommit ==
    /\ \E w \in Writers : UpdateCommit(w)
    /\ UNCHANGED saver

NextConc ==
    \/ AddQuestion
    \/ GetQuestionById
    \/ WriterApply
    \/ WriterLoad
    \/ WriterCommit

SpecConc == Init /\ [][NextConc]_vars

\* The review workflow over a question that its callers create, update,
\* read and delete.
AddQuestionByCaller ==
    /\ \E c \in Callers, question \in NewQuestions : add_question(c, question)
    /\ UNCHANGED << pc, writer, saver >>
UpdateQuestionByCaller ==
    /\ \E c \in Callers, q \in QuestionIds, cl \in ChangeLists :
           update_question(c, q, cl)
    /\ UNCHANGED << pc, writer, saver >>
SendQuestionForReview ==
    /\ \E c \in Callers, q \in QuestionIds : send_question_for_review(c, q)
    /\ UNCHANGED << pc, writer, saver >>
RejectQuestion ==
    /\ \E c \in Callers, q \in QuestionIds : reject_question(c, q)
    /\ UNCHANGED << pc, writer, saver >>
PublishQuestion ==
    /\ \E c \in Callers, q \in QuestionIds : publish_question(q, c)
    /\ UNCHANGED << pc, writer, saver >>
UnpublishQuestion ==
    /\ \E c \in Callers, q \in QuestionIds : unpublish_question(q, c)
    /\ UNCHANGED << pc, writer, saver >>
CheckCanEditQuestion ==
    /\ \E u \in Callers, q \in QuestionIds : check_can_edit_question(u, q)
    /\ UNCHANGED << pc, writer, saver >>

NextFlow ==
    \/ AddQuestionByCaller
    \/ DeleteQuestion
    \/ GetQuestionById
    \/ UpdateQuestionByCaller
    \/ SendQuestionForReview
    \/ RejectQuestion
    \/ PublishQuestion
    \/ UnpublishQuestion
    \/ CheckCanEditQuestion

SpecFlow == Init /\ [][NextFlow]_vars

\* Two requests of one user running create_or_update_draft on the same
\* question, their datastore reads and writes interleaving.
SaverRead ==
    \E r \in Savers, q \in QuestionIds, u \in DraftUsers,
       cl \in SaverChangeLists, v \in SaverVersions, t \in Times :
        DraftRead(r, q, u, cl, v, t)
SaverApply == \E r \in Savers : DraftApply(r)
SaverWrite == \E r \in Savers : DraftWrite(r)

NextSave ==
    \/ AddQuestion
    \/ SaverRead
    \/ SaverApply
    \/ SaverWrite

SpecSave == Init /\ [][NextSave]_vars

\* Calls that are handed change lists with and without a malformed edit.
EditLists == MalformedChangeLists \cup { << LangChange("hi") >> }
ApplyEditList ==
    /\ \E q \in QuestionIds, cl \in EditLists : apply_change_list(q, cl)
    /\ UNCHANGED << pc, writer, saver >>
UpdateWithEditList ==
    /\ \E c \in Users, q \in QuestionIds, cl \in EditLists :
           update_question(c, q, cl)
    /\ UNCHANGED << pc, writer, saver >>
SaveDraftOfEditList ==
    /\ \E q \in QuestionIds, u \in DraftUsers, cl \in EditLists,
          v \in DraftVersions, t \in Times : create_or_update_draft(q, u, cl, v, t)
    /\ UNCHANGED << pc, writer, saver >>

NextEdits ==
    \/ AddQuestion
    \/ ApplyEditList
    \/ UpdateWithEditList
    \/ SaveDraftOfEditList

SpecEdits == Init /\ [][NextEdits]_vars

\* The draft operations of two users over one question that is created,
\* updated and read underneath them.
SaveDraftOfUser ==
    /\ \E q \in QuestionIds, u \in Users, cl \in SaverChangeLists,
          v \in SaverVersions, t \in Times :
           create_or_update_draft(q, u, cl, v, t)
    /\ UNCHANGED << pc, writer, saver >>
DiscardDraftOfUser ==
    /\ \E q \in QuestionIds, u \in Users : discard_draft(q, u)
    /\ UNCHANGED << pc, writer, saver >>

NextUsers ==
    \/ AddQuestion
    \/ UpdateQuestion
    \/ GetQuestionById
    \/ SaveDraftOfUser
    \/ DiscardDraftOfUser

SpecUsers == Init /\ [][NextUsers]_vars

\* The status transitions of a question whose users hold drafts of it.
NextStatus ==
    \/ AddQuestion
    \/ SaveDraftOfUser
    \/ SendQuestionForReview
    \/ RejectQuestion
    \/ PublishQuestion
    \/ UnpublishQuestion

SpecStatus == Init /\ [][NextStatus]_vars

\* ------------------------------------------------------------------ claims
\* The stored row of a question that QuestionModel.get still returns.
Live(q) == ~IsNone(QuestionModelGet(questionModels, q))
StoredRow(q) == Get(QuestionModelGet(questionModels, q))

\* C1: an unversioned read, get_question_by_id(id), returns the snapshot of
\* the most recently committed version of a stored question.
C1_UnversionedReadIsLatest ==
    \A q \in QuestionIds :
        Live(q) =>
            GetQuestionByIdValue(memcache, questionModels, q)
                = Some(get_question_from_model(StoredRow(q)))

\* C3: a stored question is at version 1 + (update_question calls that
\* succeeded), its commit log holds one entry per version in commit order,
\* the first a 'create'; no step lowers the version, and an update that
\* fails adds neither a version nor a log entry.
C3_LogMatchesVersion ==
    \A q \in QuestionIds :
        ~IsNone(questionModels[q]) =>
            /\ Get(questionModels[q]).version = updatesOk[q] + 1
            /\ Len(commitLog[q]) = updatesOk[q] + 1
            /\ \A i \in 1..Len(commitLog[q]) :
                   /\ commitLog[q][i].version = i
                   /\ commitLog[q][i].commit_type =
                          (IF i = 1 THEN "create" ELSE "edit")
C3_VersionStep ==
    \A q \in QuestionIds :
        /\ (~IsNone(questionModels[q]) /\ ~IsNone(questionModels'[q])) =>
               Get(questionModels'[q]).version >= Get(questionModels[q]).version
        /\ (result'.op = "update_question" /\ result'.outcome # "ok") =>
               UNCHANGED << questionModels, commitLog >>
        /\ (result'.op = "add_question" /\ result'.outcome = "ok"
               /\ ~IsNone(questionModels'[q]) /\ IsNone(questionModels[q])) =>
               /\ Get(questionModels'[q]).version = 1
               /\ Len(commitLog'[q]) = 1
C3_VersionAndLogGrowth == []C3_LogMatchesVersion /\ [][C3_VersionStep]_vars

\* The change-list semantics the claims state: edits applied left to right,
\* an update-language-code edit replacing language_code and an
\* update-question-data edit replacing question_data.
EditApplied(question, change) ==
    IF change.cmd # CMD_UPDATE_QUESTION_PROPERTY THEN question
    ELSE IF change.property_name = QUESTION_PROPERTY_LANGUAGE_CODE
         THEN [question EXCEPT !.language_code = change.new_value]
    ELSE IF change.property_name = QUESTION_PROPERTY_QUESTION_DATA
         THEN [question EXCEPT !.question_data = change.new_value]
    ELSE question
RECURSIVE EditsFolded(_, _)
EditsFolded(question, change_list) ==
    IF change_list = << >> THEN question
    ELSE EditsFolded(EditApplied(question, Head(change_list)), Tail(change_list))

\* C6: apply_change_list returns the left-to-right fold of the edits over
\* the loaded snapshot, each edit replacing its own field.
C6_ApplyIsFold ==
    [][ \A q \in QuestionIds, cl \in ChangeLists :
            (apply_change_list(q, cl) /\ result'.outcome = "ok") =>
                result'.value =
                    Some(EditsFolded(
                        Get(GetQuestionByIdValue(memcache, questionModels, q)),
                        cl)) ]_vars

\* C7: the Summary of a stored question holds the question's language_code
\* and the excerpt of its payload.
C7_SummaryFollowsEntity ==
    \A q \in QuestionIds :
        (Live(q) /\ ~IsNone(questionSummaries[q])) =>
            /\ Get(questionSummaries[q]).language_code = StoredRow(q).language_code
            /\ Get(questionSummaries[q]).question_html_data =
                   ContentHtml(StoredRow(q).question_data)

\* C8: update_question fails on an empty change list, on a resulting
\* snapshot that fails validation and on a question that does not exist,
\* and a failed update_question leaves the stored question, its version,
\* its commit log and its Summary as they were.
C8_Step ==
    \A c \in Users, q \in QuestionIds, cl \in ChangeLists :
        update_question(c, q, cl) =>
            LET updated == ApplyChangeListValue(memcache, questionModels, q, cl)
            IN  /\ (cl = << >>) => result'.outcome # "ok"
                /\ ~Live(q) => result'.outcome # "ok"
                /\ (~IsNone(updated) /\ ~Validate(Get(updated))) =>
                       result'.outcome # "ok"
                /\ result'.outcome # "ok" =>
                       UNCHANGED << questionModels, commitLog,
                                    questionSummaries, updatesOk >>
C8_RejectedUpdateChangesNothing == [][C8_Step]_vars
C8_Witness ==
    \E q \in QuestionIds :
        /\ Live(q)
        /\ StoredRow(q).version = 2
        /\ result.op = "update_question"
        /\ result.outcome = "ValidationError"

\* C2: updates to one question serialize: an update_question that returns
\* normally has committed over the very version its writer loaded (a writer
\* that lost the race fails instead of overwriting) and has assigned a
\* version number the commit log does not hold yet.
C2_UpdatesSerialize ==
    [][ \A w \in Writers :
            UpdateCommit(w) =>
                LET row == Get(writer[w].row)
                IN  /\ ~IsNone(questionModels[row.id])
                    /\ Get(questionModels[row.id]).version = row.version
                    /\ \A i \in 1..Len(commitLog[row.id]) :
                           commitLog[row.id][i].version # row.version + 1 ]_vars

\* The user's draft row and the draft-aware read that has just returned.
DraftRow(u, q) == questionUserData[<<u, q>>]
DraftReadReturned(q) ==
    /\ result.op = "get_question_with_draft_applied"
    /\ result.outcome = "ok"
    /\ Live(q)

\* C4: when the draft's base version differs from the question's current
\* version, get_question_with_draft_applied returns what
\* get_question_by_id returns.
C4_StaleDraftIgnored ==
    \A q \in QuestionIds, u \in DraftUsers :
        ( /\ DraftReadReturned(q)
          /\ ~IsNone(DraftRow(u, q))
          /\ Get(DraftRow(u, q)).draft_change_list_question_version
                 # Some(StoredRow(q).version) ) =>
            result.value = GetQuestionByIdValue(memcache, questionModels, q)

\* C5: a non-empty draft whose base version equals the question's current
\* version is applied to the canonical snapshot; with no draft row or an
\* empty or absent change list the canonical snapshot is returned, and the
\* read of a stored question does not fail.
C5_ValidDraftApplied ==
    \A q \in QuestionIds, u \in DraftUsers :
        LET row == DraftRow(u, q)
            canonical == GetQuestionByIdValue(memcache, questionModels, q)
        IN  /\ (result.op = "get_question_with_draft_applied" /\ Live(q)) =>
                   result.outcome = "ok"
            /\ ( /\ DraftReadReturned(q)
                 /\ ~IsNone(row)
                 /\ Truthy(Get(row).draft_change_list)
                 /\ Get(row).draft_change_list_question_version
                        = Some(StoredRow(q).version) ) =>
                   result.value =
                       Some(ApplyChanges(
                           Get(canonical),
                           DictsToChangeList(Get(Get(row).draft_change_list))))
            /\ ( /\ DraftReadReturned(q)
                 /\ (IsNone(row) \/ ~Truthy(Get(row).draft_change_list)) ) =>
                   result.value = canonical

\* C9: create_or_update_draft changes nothing of the draft when the stored
\* draft's last_updated is strictly newer than the caller's
\* current_datetime.
C9_NewerDraftKept ==
    [][ \A q \in QuestionIds, u \in DraftUsers, cl \in DraftChangeLists,
           v \in DraftVersions, t \in Times :
            ( /\ create_or_update_draft(q, u, cl, v, t)
              /\ ~IsNone(DraftRow(u, q))
              /\ ~IsNone(Get(DraftRow(u, q)).draft_change_list_last_updated)
              /\ Get(Get(DraftRow(u, q)).draft_change_list_last_updated) > t ) =>
                UNCHANGED questionUserData ]_vars

\* C10: a save that the timestamp guard lets through and that completes
\* stores the caller's change list, question_version and timestamp and
\* raises draft_change_list_id by exactly 1 (to 1 on a missing row);
\* discard_draft keeps the id; so the id never decreases and equals the
\* number of saves that took effect.
DraftId(u, q) ==
    IF IsNone(DraftRow(u, q)) THEN 0 ELSE Get(DraftRow(u, q)).draft_change_list_id
C10_IdCountsSaves ==
    \A q \in QuestionIds, u \in Users : DraftId(u, q) = effectiveSaves[<<u, q>>]
C10_Step ==
    \A q \in QuestionIds, u \in DraftUsers :
        /\ DraftId(u, q)' >= DraftId(u, q)
        /\ result'.op = "discard_draft" => DraftId(u, q)' = DraftId(u, q)
        /\ (result'.op = "create_or_update_draft" /\ result'.outcome # "ok") =>
               UNCHANGED questionUserData
        /\ (result'.op = "create_or_update_draft" /\ result'.outcome = "ok") =>
               \A cl \in DraftChangeLists, v \in DraftVersions, t \in Times :
                   create_or_update_draft(q, u, cl, v, t) =>
                       /\ ~IsNone(DraftRow(u, q)')
                       /\ Get(DraftRow(u, q)').draft_change_list =
                              Some(ChangeListToDicts(cl))
                       /\ Get(DraftRow(u, q)').draft_change_list_question_version =
                              Some(v)
                       /\ Get(DraftRow(u, q)').draft_change_list_last_updated =
                              Some(t)
                       /\ DraftId(u, q)' = DraftId(u, q) + 1
C11_Step ==
    \A q \in QuestionIds, u \in DraftUsers :
        discard_draft(q, u) =>
            LET row == DraftRow(u, q)'
                canonical == GetQuestionByIdValue(memcache', questionModels', q)
            IN  /\ result'.outcome = "ok"
                /\ ~IsNone(canonical) =>
                       DraftAppliedValue(memcache', questionModels', q, row)
                           = canonical
                /\ (IF IsNone(row) THEN row ELSE Some(DiscardedRow(Get(row))))
                       = row
                /\ UNCHANGED << questionModels, commitLog, questionRights,
                                questionSummaries, memcache >>
C11_DiscardIdempotentTotal == [][C11_Step]_vars
\* A discard has just cleared a draft that the read would have applied.
C11_Witness ==
    \E q \in QuestionIds, u \in DraftUsers :
        /\ result.op = "discard_draft"
        /\ ~IsNone(GetQuestionByIdValue(memcache, questionModels, q))
        /\ ~IsNone(DraftRow(u, q))
        /\ Get(DraftRow(u, q)).draft_change_list_id = 1
        /\ IsNone(Get(DraftRow(u, q)).draft_change_list)

\* The status changes of the workflow table, as <<from, to>>.
WorkflowTransitions ==
    { << ACTIVITY_STATUS_PRIVATE, QUESTION_STATUS_PENDING >>,
      << QUESTION_STATUS_PENDING, QUESTION_STATUS_APPROVED >>,
      << QUESTION_STATUS_PENDING, QUESTION_STATUS_REJECTED >>,
      << ACTIVITY_STATUS_PRIVATE, QUESTION_STATUS_APPROVED >>,
      << QUESTION_STATUS_REJECTED, QUESTION_STATUS_APPROVED >>,
      << QUESTION_STATUS_APPROVED, ACTIVITY_STATUS_PRIVATE >> }
\* The Summary of q exists before and after the step with another status.
StatusChanged(q) ==
    /\ ~IsNone(questionSummaries[q])
    /\ ~IsNone(questionSummaries'[q])
    /\ Get(questionSummaries'[q]).status # Get(questionSummaries[q]).status

\* C12: every change of a Summary's status is a transition of the workflow
\* table; send_question_for_review changes the status only from private,
\* reject_question only from pending, publish_question only from private
\* or rejected.
C12_Step ==
    \A q \in QuestionIds :
        StatusChanged(q) =>
            LET from == Get(questionSummaries[q]).status
                to == Get(questionSummaries'[q]).status
            IN  /\ << from, to >> \in WorkflowTransitions
                /\ result'.op = "send_question_for_review" =>
                       from = ACTIVITY_STATUS_PRIVATE
                /\ result'.op = "reject_question" =>
                       from = QUESTION_STATUS_PENDING
                /\ result'.op = "publish_question" =>
                       from \in {ACTIVITY_STATUS_PRIVATE,
                                 QUESTION_STATUS_REJECTED}
C12_WorkflowTransitionTable == [][C12_Step]_vars

\* C13: a call of reject_question, publish_question or unpublish_question
\* by a caller who does not hold the status-change capability changes no
\* Summary.
C13_CapabilityGuardsStatus ==
    [][ \A c \in Callers, q \in QuestionIds :
            ( /\ ACTION_CHANGE_QUESTION_STATUS \notin UserActions(c)
              /\ \/ reject_question(c, q)
                 \/ publish_question(q, c)
                 \/ unpublish_question(q, c) ) =>
                UNCHANGED questionSummaries ]_vars

\* C14: publish_question fails on an approved Summary, unpublish_question
\* on one that is not approved, both for a caller without the status-change
\* capability and for a missing Summary; a failure leaves the Summaries as
\* they were; a successful publish stores approved, a successful unpublish
\* private.
C14_Step ==
    \A c \in Callers, q \in QuestionIds :
        LET summary == questionSummaries[q]
            lacks == ACTION_CHANGE_QUESTION_STATUS \notin UserActions(c)
            approved == /\ ~IsNone(summary)
                        /\ Get(summary).status = QUESTION_STATUS_APPROVED
        IN  /\ publish_question(q, c) =>
                   /\ (IsNone(summary) \/ lacks \/ approved) =>
                          result'.outcome # "ok"
                   /\ result'.outcome # "ok" => UNCHANGED questionSummaries
                   /\ result'.outcome = "ok" =>
                          /\ ~IsNone(questionSummaries'[q])
                          /\ Get(questionSummaries'[q]).status =
                                 QUESTION_STATUS_APPROVED
            /\ unpublish_question(q, c) =>
                   /\ (IsNone(summary) \/ lacks \/ ~approved) =>
                          result'.outcome # "ok"
                   /\ result'.outcome # "ok" => UNCHANGED questionSummaries
                   /\ result'.outcome = "ok" =>
                          /\ ~IsNone(questionSummaries'[q])
                          /\ Get(questionSummaries'[q]).status =
                                 ACTIVITY_STATUS_PRIVATE
C14_PublishUnpublishFailures == [][C14_Step]_vars
\* A publish has just been refused on a Summary an earlier publish approved.
C14_Witness ==
    \E q \in QuestionIds :
        /\ result.op = "publish_question"
        /\ result.outcome = "AlreadyPublished"
        /\ ~IsNone(questionSummaries[q])
        /\ Get(questionSummaries[q]).status = QUESTION_STATUS_APPROVED

\* The edit-permission predicate as stated: the creator on a private or
\* rejected question, an admin or topic manager on an approved one.
MayEdit(status, is_creator, admin, topic_manager) ==
    \/ /\ status \in {ACTIVITY_STATUS_PRIVATE, QUESTION_STATUS_REJECTED}
       /\ is_creator
    \/ /\ admin \/ topic_manager
       /\ status = QUESTION_STATUS_APPROVED

\* C15: check_can_edit_question returns true exactly when the status is
\* private or rejected and the user is the creator, or the user is an admin
\* or topic manager and the status is approved; it returns false for every
\* user on a pending question.
C15_Step ==
    \A u \in Callers, q \in QuestionIds :
        (check_can_edit_question(u, q) /\ ~IsNone(questionSummaries[q])) =>
            LET summary == Get(questionSummaries[q])
            IN  /\ result'.outcome = "ok"
                /\ result'.value =
                       Some(MayEdit(summary.status, summary.creator_id = u,
                                    is_admin(u), is_topic_manager(u)))
                /\ summary.status = QUESTION_STATUS_PENDING =>
                       result'.value = Some(FALSE)
C15_EditPermissionPredicate == [][C15_Step]_vars
\* The check has just allowed an edit of an approved question, which only
\* an admin's or topic manager's call can get.
C15_Witness ==
    \E q \in QuestionIds :
        /\ result.op = "check_can_edit_question"
        /\ result.value = Some(TRUE)
        /\ ~IsNone(questionSummaries[q])
        /\ Get(questionSummaries[q]).status = QUESTION_STATUS_APPROVED

\* C16: update_question by a user whom check_can_edit_question denies does
\* not return normally and leaves the stored question and its commit log
\* as they were.
C16_UpdateNeedsEditPermission ==
    [][ \A c \in Callers, q \in QuestionIds, cl \in ChangeLists :
            ( /\ update_question(c, q, cl)
              /\ ~IsNone(questionSummaries[q])
              /\ ~CanEditQuestion(Get(questionSummaries[q]), c) ) =>
                /\ result'.outcome # "ok"
                /\ UNCHANGED << questionModels, commitLog >> ]_vars

\* C17: a successful add_question leaves the question stored at version 1
\* with the supplied payload and language, a Rights row with no managers
\* and a Summary with status private whose creator is the committer; an
\* add_question whose question fails validation fails and creates no
\* question, Rights row, Summary or commit-log entry.
C17_Step ==
    \A c \in Users, question \in NewQuestions :
        add_question(c, question) =>
            LET q == question.question_id
            IN  /\ ~Validate(question) => result'.outcome # "ok"
                /\ result'.outcome = "ok" =>
                       /\ ~IsNone(QuestionModelGet(questionModels', q))
                       /\ Get(questionModels'[q]).version = 1
                       /\ Get(questionModels'[q]).question_data =
                              question.question_data
                       /\ Get(questionModels'[q]).language_code =
                              question.language_code
                       /\ questionRights'[q] =
                              Some([id |-> q, manager_ids |-> {}])
                       /\ ~IsNone(questionSummaries'[q])
                       /\ Get(questionSummaries'[q]).status =
                              ACTIVITY_STATUS_PRIVATE
                       /\ Get(questionSummaries'[q]).creator_id = c
                /\ result'.outcome # "ok" =>
                       UNCHANGED << questionModels, commitLog, questionRights,
                                    questionSummaries >>
C17_CreatePostcondition == [][C17_Step]_vars
\* An add_question has just stored a question.
C17_Witness ==
    \E q \in QuestionIds :
        /\ result.op = "add_question"
        /\ result.outcome = "ok"
        /\ Live(q)
        /\ ~IsNone(questionRights[q])
        /\ ~IsNone(questionSummaries[q])

\* C18: delete_question on a question that was deleted or never stored
\* ends in not-found and changes no question row, commit log, Rights row,
\* Summary or draft; a soft delete of a stored question keeps its row, at
\* its version and content, and its commit log.
C18_Step ==
    \A c \in Users, q \in QuestionIds, f \in BOOLEAN :
        delete_question(c, q, f) =>
            /\ ~Live(q) =>
                   /\ result'.outcome = "NotFound"
                   /\ UNCHANGED << questionModels, commitLog, questionRights,
                                   questionSummaries, questionUserData >>
            /\ (Live(q) /\ ~f) =>
                   /\ questionModels'[q] =
                          Some([StoredRow(q) EXCEPT !.deleted = TRUE])
                   /\ UNCHANGED commitLog
C18_DeleteSafeToRepeat == [][C18_Step]_vars
\* A delete has just been refused on a question an earlier soft delete
\* retired, its two versions and their log still stored.
C18_Witness ==
    \E q \in QuestionIds :
        /\ result.op = "delete_question"
        /\ result.outcome = "NotFound"
        /\ ~IsNone(questionModels[q])
        /\ Get(questionModels[q]).deleted
        /\ Len(commitLog[q]) = 2

\* C19: apply_change_list(id, []) returns the stored snapshot of the
\* question, payload, language_code and schema version, and changes no
\* stored record.
C19_EmptyChangeListIsIdentity ==
    [][ \A q \in QuestionIds :
            (apply_change_list(q, << >>) /\ Live(q)) =>
                /\ result'.value = Some(get_question_from_model(StoredRow(q)))
                /\ UNCHANGED << questionModels, commitLog, questionRights,
                                questionSummaries, questionUserData >> ]_vars

\* C20: once delete_question has returned normally, get_question_by_id
\* finds no snapshot for the id and the question has no Summary.
C20_DeletionVisible ==
    [][ \A c \in Users, q \in QuestionIds, f \in BOOLEAN :
            (delete_question(c, q, f) /\ result'.outcome = "ok") =>
                /\ IsNone(GetQuestionByIdValue(memcache', questionModels', q))
                /\ IsNone(questionSummaries'[q]) ]_vars

\* C21: of two create_or_update_draft calls by one user on one question
\* that run at the same time, the one with the later timestamp determines
\* the stored draft: a call does not write over a non-empty draft whose
\* last_updated is newer than its own timestamp, however the reads, checks
\* and writes of the two calls interleave.
C21_SavesOrderedByTimestamp ==
    [][ \A r \in Savers :
            ( /\ DraftWrite(r)
              /\ DraftIsNewer(
                     questionUserData[<< saver[r].user_id,
                                         saver[r].question_id >>],
                     saver[r].current_datetime) ) =>
                UNCHANGED questionUserData ]_vars

\* C22: a change list that holds an unrecognized edit, or an edit of a
\* field a question does not have, makes apply_change_list fail for the
\* whole list, and update_question and create_or_update_draft called with
\* it store nothing.
C22_MalformedEditsAbort ==
    [][ \A q \in QuestionIds, cl \in MalformedChangeLists :
            /\ apply_change_list(q, cl) => result'.outcome # "ok"
            /\ \A c \in Users :
                   update_question(c, q, cl) =>
                       /\ result'.outcome # "ok"
                       /\ UNCHANGED << questionModels, commitLog >>
            /\ \A u \in DraftUsers, v \in DraftVersions, t \in Times :
                   create_or_update_draft(q, u, cl, v, t) =>
                       /\ result'.outcome # "ok"
                       /\ UNCHANGED questionUserData ]_vars

\* C23: create_or_update_draft and discard_draft, however they end, leave
\* the stored question, its version, its commit log, its Rights, its
\* Summary and the drafts of all other users as they were, and
\* get_question_by_id returns after the call what it would have returned
\* before; a save whose change list fails to apply or to validate leaves
\* the caller's own draft as it was too.
C23_Step ==
    \A q \in QuestionIds, u \in Users :
        /\ ( \/ discard_draft(q, u)
             \/ \E cl \in SaverChangeLists, v \in SaverVersions, t \in Times :
                    create_or_update_draft(q, u, cl, v, t) ) =>
               /\ UNCHANGED << questionModels, commitLog, questionRights,
                               questionSummaries >>
               /\ \A other \in Users \ {u} :
                      DraftRow(other, q)' = DraftRow(other, q)
               /\ GetQuestionByIdValue(memcache', questionModels', q) =
                      GetQuestionByIdValue(memcache, questionModels, q)
        /\ \A cl \in SaverChangeLists, v \in SaverVersions, t \in Times :
               LET updated == ApplyChangeListValue(memcache, questionModels,
                                                   q, cl)
               IN  ( /\ create_or_update_draft(q, u, cl, v, t)
                     /\ (IsNone(updated) \/ ~Validate(Get(updated))) ) =>
                       /\ result'.outcome # "ok"
                       /\ UNCHANGED questionUserData
C23_DraftsLeaveEntityAlone == [][C23_Step]_vars
\* A save has just failed validation while both users hold a draft row
\* and the question stands at version 2.
C23_Witness ==
    \E q \in QuestionIds :
        /\ result.op = "create_or_update_draft"
        /\ result.outcome = "ValidationError"
        /\ Live(q)
        /\ StoredRow(q).version = 2
        /\ \A u \in Users :
               /\ ~IsNone(DraftRow(u, q))
               /\ Truthy(Get(DraftRow(u, q)).draft_change_list)

\* C24: send_question_for_review, reject_question, publish_question and
\* unpublish_question change nothing but the status of the question's
\* Summary: the stored question, its version and commit log, its Rights,
\* the cache, the drafts and whether each draft is valid stay as they
\* were, and the Summary keeps its creator_id, language_code and excerpt.
C24_Step ==
    \A c \in Callers, q \in QuestionIds :
        ( \/ send_question_for_review(c, q)
          \/ reject_question(c, q)
          \/ publish_question(q, c)
          \/ unpublish_question(q, c) ) =>
            /\ UNCHANGED << questionModels, commitLog, questionRights,
                            memcache, questionUserData >>
            /\ \A u \in Users :
                   ( /\ ~IsNone(DraftRow(u, q))
                     /\ ~IsNone(GetQuestionByIdValue(memcache,
                                                     questionModels, q)) ) =>
                       is_version_of_draft_valid(
                           memcache', questionModels', q,
                           Get(DraftRow(u, q)').draft_change_list_question_version)
                       = is_version_of_draft_valid(
                             memcache, questionModels, q,
                             Get(DraftRow(u, q)).draft_change_list_question_version)
            /\ IF IsNone(questionSummaries[q])
               THEN UNCHANGED questionSummaries
               ELSE /\ ~IsNone(questionSummaries'[q])
                    /\ questionSummaries'[q] =
                           Some([Get(questionSummaries[q]) EXCEPT !.status =
                                    Get(questionSummaries'[q]).status])
C24_StatusTransitionsStatusOnly == [][C24_Step]_vars
\* An unpublish has just returned an approved question to private while
\* a user holds a draft of it.
C24_Witness ==
    \E q \in QuestionIds, u \in Users :
        /\ result.op = "unpublish_question"
        /\ result.outcome = "ok"
        /\ Get(questionSummaries[q]).status = ACTIVITY_STATUS_PRIVATE
        /\ Live(q)
        /\ ~IsNone(DraftRow(u, q))
        /\ Truthy(Get(DraftRow(u, q)).draft_change_list)

====
